---- MODULE Spec2Model ----
(***************************************************************************)
(* Model of the dnspod client's request/response mapping layer            *)
(* (src/domains.go): DomainsService and RecordsService.                   *)
(*                                                                         *)
(* Every public operation builds a url.Values payload from its inputs,    *)
(* calls client.post once, and maps (res, err, decoded wrapper) to its    *)
(* results.  An operation is modelled as two steps around the blocking    *)
(* post call: the call step (payload assembly + post) and the return step *)
(* (status check + results).  The transport is Post_Send and Post_Reply.   *)
(*                                                                         *)
(* Text (status messages, error texts) is a sequence of words, so that    *)
(* fmt.Errorf's "%s" substitution is a concatenation and "contains" is a  *)
(* sub-sequence test.  Field values are "" or a decimal string.           *)
(***************************************************************************)
EXTENDS Integers, Sequences, FiniteSets, TLC

\* ------------------------------------------------------------------ bounds
\* Number of distinct non-empty field values / positive integers.
MaxVal == 2
\* A request or template carries at most this many populated optional fields
\* (the fields that identify the domain or record are always free).
MaxSet == 1

\* ------------------------------------------------------- remote method ids
methodDomainList == "Domain.List"
methodDomainCreate == "Domain.Create"
methodDomainInfo == "Domain.Info"
methodDomainRemove == "Domain.Remove"
methodDomainLog == "Domain.Log"
methodRecordList == "Record.List"
methodRecordCreate == "Record.Create"
methodRecordInfo == "Record.Info"
\* Variant: Remove posts to the Modify method.
methodRecordRemove_AsModify == "Record.Modify"
methodRecordRemove == "Record.Remove"
methodRecordModify == "Record.Modify"
methodRecordRemark == "Record.Remark"

\* ------------------------------------------------------------ basic values
\* strconv.Itoa: the decimal string of an int.
Itoa(n) == ToString(n)

Ints == (-1)..MaxVal
NonEmpty == {Itoa(i) : i \in 1..MaxVal}
Str == {""} \cup NonEmpty

\* The subsets of F with at most k elements.
RECURSIVE SubsetsUpTo(_, _)
SubsetsUpTo(F, k) ==
  IF k = 0 THEN {{}}
  ELSE LET P == SubsetsUpTo(F, k - 1)
       IN P \cup {S \cup {f} : S \in P, f \in F}

\* Records of string fields over the field set F with at most MaxSet of them
\* populated.
Templates(F) ==
  UNION {{[f \in F |-> IF f \in S THEN v[f] ELSE ""] : v \in [S -> NonEmpty]} :
         S \in SubsetsUpTo(F, MaxSet)}

\* ------------------------------------------------------------------- types
DomainInfoFields ==
  {"DomainTotal", "AllTotal", "MineTotal", "ShareTotal", "VipTotal",
   "IsMarkTotal", "PauseTotal", "ErrorTotal", "LockTotal", "SpamTotal",
   "VipExpire", "ShareOutTotal"}

DomainInfo == {[f \in DomainInfoFields |-> ""],
               [f \in DomainInfoFields |-> IF f = "DomainTotal" THEN "1" ELSE ""]}

DomainStringFields ==
  {"ID", "Name", "PunyCode", "Grade", "GradeTitle", "Status", "ExtStatus",
   "Records", "GroupID", "IsMark", "Remark", "IsVIP", "SearchenginePush",
   "UserID", "CreatedOn", "UpdatedOn", "TTL", "CNameSpeedUp", "Owner"}

\* type Domain: its string fields plus the bool AuthToAnquanBao.
Domain(strs, auth) ==
  [f \in DomainStringFields \cup {"AuthToAnquanBao"} |->
     IF f = "AuthToAnquanBao" THEN auth ELSE strs[f]]

\* Domain{}
ZeroDomain == Domain([f \in DomainStringFields |-> ""], FALSE)

RecordFields ==
  {"ID", "Name", "Line", "LineID", "Type", "TTL", "Value", "MX", "Enabled",
   "Status", "MonitorStatus", "Remark", "UpdateOn", "UseAQB"}

\* Record{}
ZeroRecord == [f \in RecordFields |-> ""]

\* type Status
Status(code, message) == [Code |-> code, Message |-> message]

\* A Go slice: nil, or a (possibly empty) sequence of elements.
NilSlice == [nil |-> TRUE, elems |-> <<>>]
Slice(s) == [nil |-> FALSE, elems |-> s]

\* *Response: nil or a descriptor of the HTTP response.
NilResponse == "nil"
Responses == {"HTTP 200", "HTTP 502"}

\* error: nil or a value with a text.
NilError == [nil |-> TRUE, text |-> <<>>]
ErrorOf(text) == [nil |-> FALSE, text |-> text]

\* fmt.Errorf(prefix + "%s", message)
Errorf(prefix, message) == ErrorOf(prefix \o message)

\* strings.Contains on word sequences.
Contains(text, part) ==
  \E i \in 1..(Len(text) + 1) :
     /\ i + Len(part) - 1 <= Len(text)
     /\ SubSeq(text, i, i + Len(part) - 1) = part

CouldNotGetDomains == <<"could", "not", "get", "domains:">>
CouldNotGetDomainLogs == <<"could", "not", "get", "domain", "logs:">>

\* ------------------------------------------------------------- url.Values
\* url.Values is map[string][]string: a function from the keys present to
\* the sequence of values under each key.
EmptyValues == [k \in {} |-> <<>>]

\* url.Values.Set: replaces whatever is under the key.
ValuesSet(p, k, v) ==
  [x \in DOMAIN p \cup {k} |-> IF x = k THEN <<v>> ELSE p[x]]

\* url.Values.Add: appends to whatever is under the key.
ValuesAdd(p, k, v) ==
  [x \in DOMAIN p \cup {k} |->
     IF x = k THEN (IF k \in DOMAIN p THEN Append(p[k], v) ELSE <<v>>)
     ELSE p[x]]

\* if v != "" { p.Set(k, v) }
SetIfNonEmpty(p, k, v) == IF v # "" THEN ValuesSet(p, k, v) ELSE p

\* if v != "" { p.Add(k, v) }
AddIfNonEmpty(p, k, v) == IF v # "" THEN ValuesAdd(p, k, v) ELSE p

\* --------------------------------------------------------- CommonParams
\* The common parameter block: account token and requested format.
CommonParamsValues ==
  {[LoginToken |-> "id,token", Format |-> "json"],
   [LoginToken |-> "id,token", Format |-> ""]}

\* CommonParams.toPayLoad: the common keys, each when non-empty.
CommonParams_toPayLoad(c) ==
  SetIfNonEmpty(SetIfNonEmpty(EmptyValues, "login_token", c.LoginToken),
                "format", c.Format)

VARIABLES
  client,   \* s.client.CommonParams, fixed at construction
  pc,       \* "idle", "posting", "waiting", "replied", "done"
  op,       \* the operation in progress
  args,     \* its inputs, live until post is called
  payload,  \* the url.Values handed to post
  posts,    \* the methods post was called with during this operation
  reply,    \* what post returned: res, err and the decoded wrapper
  ret       \* what the operation returned

vars == <<client, pc, op, args, payload, posts, reply, ret>>

None == [none |-> TRUE]

Init ==
  /\ client \in CommonParamsValues
  /\ pc = "idle"
  /\ op = "none"
  /\ args = None
  /\ payload = EmptyValues
  /\ posts = <<>>
  /\ reply = None
  /\ ret = None

\* The call step of an operation: inputs a, payload p, post(method, p, &w).
Call(name, a, p, method) ==
  /\ pc = "idle"
  /\ pc' = "posting"
  /\ op' = name
  /\ args' = a
  /\ payload' = p
  /\ posts' = Append(posts, method)
  /\ UNCHANGED <<client, reply, ret>>

\* The return step of an operation: results r.
Return(name, r) ==
  /\ pc = "replied"
  /\ op = name
  /\ pc' = "done"
  /\ ret' = r
  /\ UNCHANGED <<client, op, args, payload, posts, reply>>

\* ------------------------------------------------------- the transport
Codes == {"1", "0", "6", ""}
Messages == {<<>>, <<"Login", "fail">>, <<"Domain", "id", "invalid">>}
StatusValues == {Status(c, m) : c \in Codes, m \in Messages}

TransportErrors ==
  {ErrorOf(<<"dial", "tcp:", "i/o", "timeout">>),
   ErrorOf(<<"unexpected", "end", "of", "JSON", "input">>)}

DomainValue(i) ==
  [ZeroDomain EXCEPT !["ID"] = Itoa(i), !["Name"] = "example.com",
                     !["Status"] = "enable"]
DomainValues == {ZeroDomain} \cup {DomainValue(i) : i \in 1..MaxVal}
DomainSlices ==
  {NilSlice} \cup {Slice([i \in 1..n |-> DomainValue(i)]) : n \in 0..MaxVal}

RecordValue(i) ==
  [ZeroRecord EXCEPT !["ID"] = Itoa(i), !["Name"] = "www", !["Type"] = "A",
                     !["Value"] = "10.0.0.1"]
RecordValues == {ZeroRecord} \cup {RecordValue(i) : i \in 1..MaxVal}
RecordSlices ==
  {NilSlice} \cup {Slice([i \in 1..n |-> RecordValue(i)]) : n \in 0..MaxVal}

LogSlices ==
  {NilSlice} \cup {Slice([i \in 1..n |-> "log line"]) : n \in 0..MaxVal}

\* type domainListWrapper
domainListWrapper ==
  [Status : StatusValues, Info : DomainInfo, Domains : DomainSlices]
\* type domainWrapper
domainWrapper ==
  [Status : StatusValues, Info : DomainInfo, Domain : DomainValues]
\* type domainLogWrapper
domainLogWrapper == [Status : StatusValues, Log : LogSlices]
\* type recordsWrapper
recordsWrapper ==
  [Status : StatusValues, Info : DomainInfo, Records : RecordSlices]
\* type recordWrapper
recordWrapper ==
  [Status : StatusValues, Info : DomainInfo, Record : RecordValues]

\* The wrapper type each method's response is decoded into.
TargetOf(method) ==
  CASE method = methodDomainList -> domainListWrapper
    [] method \in {methodDomainCreate, methodDomainInfo, methodDomainRemove}
         -> domainWrapper
    [] method = methodDomainLog -> domainLogWrapper
    [] method = methodRecordList -> recordsWrapper
    [] OTHER -> recordWrapper

\* What client.post can hand back: a descriptor and no error, or an error
\* with or without a descriptor; the target holds whatever was decoded.
PostOutcomes(method) ==
  {o \in [res : Responses \cup {NilResponse},
          err : TransportErrors \cup {NilError},
          w : TargetOf(method)] :
     o.err.nil => o.res # NilResponse}

\* client.post, first half: the request goes out.  The payload is consumed;
\* the caller is blocked and keeps nothing of its inputs.
Post_Send ==
  /\ pc = "posting"
  /\ pc' = "waiting"
  /\ args' = None
  /\ payload' = EmptyValues
  /\ UNCHANGED <<client, op, posts, reply, ret>>

\* client.post, second half: the call returns res, err and the decoded
\* wrapper to the caller.
Post_Reply ==
  /\ pc = "waiting"
  /\ \E o \in PostOutcomes(posts[Len(posts)]) : reply' = o
  /\ pc' = "replied"
  /\ UNCHANGED <<client, op, args, payload, posts, ret>>

\* The operation has returned; the next call starts afresh.
Finish ==
  /\ pc = "done"
  /\ pc' = "idle"
  /\ op' = "none"
  /\ posts' = <<>>
  /\ reply' = None
  /\ ret' = None
  /\ UNCHANGED <<client, args, payload>>

\* json.Number.String: the number's text, unchanged.
JsonNumber_String(n) == n

\* The record f with the fields of g added.
Merge(f, g) ==
  [x \in DOMAIN f \cup DOMAIN g |-> IF x \in DOMAIN g THEN g[x] ELSE f[x]]

\* --------------------------------------------------------- DomainsService
DomainLogRequests ==
  {[CommonParams |-> c, DomainId |-> i, Domain |-> d, Offset |-> o,
    Length |-> l] :
     c \in CommonParamsValues, i \in Str, d \in Str, o \in Ints, l \in Ints}

DomainLogRequest_toPayLoad(c) ==
  LET p0 == CommonParams_toPayLoad(c.CommonParams)
      p1 == IF c.DomainId # "" THEN ValuesSet(p0, "domain_id", c.DomainId)
            ELSE ValuesSet(p0, "domain", c.Domain)
      p2 == IF c.Offset # 0 THEN ValuesSet(p1, "offset", Itoa(c.Offset))
            ELSE p1
      p3 == IF c.Length # 0 THEN ValuesSet(p2, "length", Itoa(c.Length))
            ELSE p2
  IN p3

DomainListRequests ==
  {Merge(t, [CommonParams |-> c]) :
     t \in Templates({"Type", "Offset", "Length", "GroupId", "Keyword"}),
     c \in CommonParamsValues}

DomainListRequest_toPayLOad(c) ==
  LET p0 == CommonParams_toPayLoad(c.CommonParams)
      p1 == SetIfNonEmpty(p0, "type", c.Type)
      p2 == SetIfNonEmpty(p1, "offset", c.Offset)
      p3 == SetIfNonEmpty(p2, "length", c.Length)
      p4 == SetIfNonEmpty(p3, "group_id", c.GroupId)
      p5 == SetIfNonEmpty(p4, "keyword", c.Keyword)
  IN p5

\* Variant: the descriptor is kept when the status check fails.
DomainsService_List_Results_KeepsDescriptor(res, err, returnedDomains) ==
  IF ~err.nil
  THEN [val |-> NilSlice, res |-> res, err |-> err]
  ELSE IF returnedDomains.Status.Code # "1"
  THEN [val |-> NilSlice, res |-> res,
        err |-> Errorf(CouldNotGetDomains, returnedDomains.Status.Message)]
  ELSE [val |-> returnedDomains.Domains, res |-> res, err |-> NilError]

DomainsService_List_Results(res, err, returnedDomains) ==
  IF ~err.nil
  THEN [val |-> NilSlice, res |-> res, err |-> err]
  ELSE IF returnedDomains.Status.Code # "1"
  THEN [val |-> NilSlice, res |-> NilResponse,
        err |-> Errorf(CouldNotGetDomains, returnedDomains.Status.Message)]
  ELSE [val |-> returnedDomains.Domains, res |-> res, err |-> NilError]

DomainsService_List ==
  /\ pc = "idle"
  /\ \E request \in DomainListRequests :
       Call("DomainsService.List", request,
            DomainListRequest_toPayLOad(request), methodDomainList)

DomainsService_List_Return ==
  Return("DomainsService.List",
         DomainsService_List_Results(reply.res, reply.err, reply.w))

DomainTemplates ==
  {Domain(t, a) : t \in Templates(DomainStringFields), a \in BOOLEAN}

DomainsService_Create_Payload(common, domainAttributes) ==
  LET p0 == CommonParams_toPayLoad(common)
      p1 == ValuesSet(p0, "domain", domainAttributes.Name)
      p2 == ValuesSet(p1, "group_id",
                      JsonNumber_String(domainAttributes.GroupID))
      p3 == ValuesSet(p2, "is_mark", domainAttributes.IsMark)
  IN p3

\* Variant: Create checks the status code as List does.
DomainsService_Create_Results_StatusChecked(res, err, returnedDomain) ==
  IF ~err.nil
  THEN [val |-> ZeroDomain, res |-> res, err |-> err]
  ELSE IF returnedDomain.Status.Code # "1"
  THEN [val |-> ZeroDomain, res |-> NilResponse,
        err |-> Errorf(CouldNotGetDomains, returnedDomain.Status.Message)]
  ELSE [val |-> returnedDomain.Domain, res |-> res, err |-> NilError]

DomainsService_Create_Results(res, err, returnedDomain) ==
  IF ~err.nil
  THEN [val |-> ZeroDomain, res |-> res, err |-> err]
  ELSE [val |-> returnedDomain.Domain, res |-> res, err |-> NilError]

DomainsService_Create ==
  /\ pc = "idle"
  /\ \E domainAttributes \in DomainTemplates :
       Call("DomainsService.Create",
            [domainAttributes |-> domainAttributes],
            DomainsService_Create_Payload(client, domainAttributes),
            methodDomainCreate)

DomainsService_Create_Return ==
  Return("DomainsService.Create",
         DomainsService_Create_Results(reply.res, reply.err, reply.w))

DomainsService_Get_Payload(common, id) ==
  ValuesSet(CommonParams_toPayLoad(common), "domain_id", Itoa(id))

DomainsService_Get_Results(res, err, returnedDomain) ==
  IF ~err.nil
  THEN [val |-> ZeroDomain, res |-> res, err |-> err]
  ELSE [val |-> returnedDomain.Domain, res |-> res, err |-> NilError]

DomainsService_Get ==
  /\ pc = "idle"
  /\ \E id \in Ints :
       Call("DomainsService.Get", [id |-> id],
            DomainsService_Get_Payload(client, id), methodDomainInfo)

DomainsService_Get_Return ==
  Return("DomainsService.Get",
         DomainsService_Get_Results(reply.res, reply.err, reply.w))

DomainsService_Delete_Payload(common, id) ==
  ValuesSet(CommonParams_toPayLoad(common), "domain_id", Itoa(id))

\* return s.client.post(...)
DomainsService_Delete_Results(res, err, returnedDomain) ==
  [res |-> res, err |-> err]

DomainsService_Delete ==
  /\ pc = "idle"
  /\ \E id \in Ints :
       Call("DomainsService.Delete", [id |-> id],
            DomainsService_Delete_Payload(client, id), methodDomainRemove)

DomainsService_Delete_Return ==
  Return("DomainsService.Delete",
         DomainsService_Delete_Results(reply.res, reply.err, reply.w))

DomainsService_Log_Results(res, err, returnedDomain) ==
  IF ~err.nil
  THEN [val |-> NilSlice, err |-> err]
  ELSE IF returnedDomain.Status.Code # "1"
  THEN [val |-> NilSlice,
        err |-> Errorf(CouldNotGetDomainLogs, returnedDomain.Status.Message)]
  ELSE [val |-> returnedDomain.Log, err |-> NilError]

DomainsService_Log ==
  /\ pc = "idle"
  /\ \E request \in DomainLogRequests :
       Call("DomainsService.Log", request, DomainLogRequest_toPayLoad(request),
            methodDomainLog)

DomainsService_Log_Return ==
  Return("DomainsService.Log",
         DomainsService_Log_Results(reply.res, reply.err, reply.w))

\* --------------------------------------------------------- RecordsService
RecordListRequests ==
  {Merge(t, [CommonParams |-> c, DomainId |-> i, Domain |-> d]) :
     t \in Templates({"Offset", "Length", "SubDomain", "RecordType",
                      "RecordLine", "RecordLIneId", "KeyWord"}),
     c \in CommonParamsValues, i \in Str, d \in Str}

RecordListRequest_toPayLOad(r) ==
  LET p0 == CommonParams_toPayLoad(r.CommonParams)
      p1 == AddIfNonEmpty(p0, "domain_id", r.DomainId)
      p2 == AddIfNonEmpty(p1, "domain", r.Domain)
      p3 == AddIfNonEmpty(p2, "offset", r.Offset)
      p4 == AddIfNonEmpty(p3, "length", r.Length)
      p5 == AddIfNonEmpty(p4, "sub_domain", r.SubDomain)
      p6 == AddIfNonEmpty(p5, "record_type", r.RecordType)
      p7 == AddIfNonEmpty(p6, "record_line", r.RecordLine)
      p8 == AddIfNonEmpty(p7, "record_line_id", r.RecordLIneId)
      p9 == AddIfNonEmpty(p8, "keyword", r.KeyWord)
  IN p9

\* Variant: the success path returns the nil slice of the error paths.
RecordsService_List_Results_DropsRecords(res, err, wrappedRecords) ==
  IF ~err.nil
  THEN [val |-> NilSlice, res |-> res, err |-> err]
  ELSE IF wrappedRecords.Status.Code # "1"
  THEN [val |-> NilSlice, res |-> NilResponse,
        err |-> Errorf(CouldNotGetDomains, wrappedRecords.Status.Message)]
  ELSE [val |-> NilSlice, res |-> res, err |-> NilError]

RecordsService_List_Results(res, err, wrappedRecords) ==
  IF ~err.nil
  THEN [val |-> NilSlice, res |-> res, err |-> err]
  ELSE IF wrappedRecords.Status.Code # "1"
  THEN [val |-> NilSlice, res |-> NilResponse,
        err |-> Errorf(CouldNotGetDomains, wrappedRecords.Status.Message)]
  ELSE [val |-> wrappedRecords.Records, res |-> res, err |-> NilError]

RecordsService_List ==
  /\ pc = "idle"
  /\ \E request \in RecordListRequests :
       Call("RecordsService.List", request,
            RecordListRequest_toPayLOad(request), methodRecordList)

RecordsService_List_Return ==
  Return("RecordsService.List",
         RecordsService_List_Results(reply.res, reply.err, reply.w))

RecordTemplates == Templates(RecordFields)

RecordsService_Create_Payload(common, domain, recordAttributes) ==
  LET p0 == CommonParams_toPayLoad(common)
      p1 == ValuesAdd(p0, "domain_id", domain)
      p2 == AddIfNonEmpty(p1, "sub_domain", recordAttributes.Name)
      p3 == AddIfNonEmpty(p2, "record_type", recordAttributes.Type)
      p4 == AddIfNonEmpty(p3, "record_line", recordAttributes.Line)
      p5 == AddIfNonEmpty(p4, "record_line_id", recordAttributes.LineID)
      p6 == AddIfNonEmpty(p5, "value", recordAttributes.Value)
      p7 == AddIfNonEmpty(p6, "mx", recordAttributes.MX)
      p8 == AddIfNonEmpty(p7, "ttl", recordAttributes.TTL)
      p9 == AddIfNonEmpty(p8, "status", recordAttributes.Status)
  IN p9

RecordsService_Create_Results(res, err, returnedRecord) ==
  IF ~err.nil
  THEN [val |-> ZeroRecord, res |-> res, err |-> err]
  ELSE IF returnedRecord.Status.Code # "1"
  THEN [val |-> returnedRecord.Record, res |-> NilResponse,
        err |-> Errorf(CouldNotGetDomains, returnedRecord.Status.Message)]
  ELSE [val |-> returnedRecord.Record, res |-> res, err |-> NilError]

RecordsService_Create ==
  /\ pc = "idle"
  /\ \E domain \in Str, recordAttributes \in RecordTemplates :
       Call("RecordsService.Create",
            [domain |-> domain, recordAttributes |-> recordAttributes],
            RecordsService_Create_Payload(client, domain, recordAttributes),
            methodRecordCreate)

RecordsService_Create_Return ==
  Return("RecordsService.Create",
         RecordsService_Create_Results(reply.res, reply.err, reply.w))

RecordsService_Get_Payload(common, domain, recordID) ==
  LET p0 == CommonParams_toPayLoad(common)
      p1 == ValuesAdd(p0, "domain_id", domain)
      p2 == ValuesAdd(p1, "record_id", recordID)
  IN p2

RecordsService_Get_Results(res, err, returnedRecord) ==
  IF ~err.nil
  THEN [val |-> ZeroRecord, res |-> res, err |-> err]
  ELSE IF returnedRecord.Status.Code # "1"
  THEN [val |-> returnedRecord.Record, res |-> NilResponse,
        err |-> Errorf(CouldNotGetDomains, returnedRecord.Status.Message)]
  ELSE [val |-> returnedRecord.Record, res |-> res, err |-> NilError]

RecordsService_Get ==
  /\ pc = "idle"
  /\ \E domain \in Str, recordID \in Str :
       Call("RecordsService.Get", [domain |-> domain, recordID |-> recordID],
            RecordsService_Get_Payload(client, domain, recordID),
            methodRecordInfo)

RecordsService_Get_Return ==
  Return("RecordsService.Get",
         RecordsService_Get_Results(reply.res, reply.err, reply.w))

\* Variant: the passed recordID is added whenever it is non-empty.
RecordsService_Update_Payload_BothIds(common, domain, recordID, recordAttributes) ==
  LET p0 == CommonParams_toPayLoad(common)
      p1 == ValuesAdd(p0, "domain_id", domain)
      p2 == AddIfNonEmpty(p1, "record_id", recordAttributes.ID)
      p3 == AddIfNonEmpty(p2, "sub_domain", recordAttributes.Name)
      p4 == IF recordID # ""
            THEN ValuesAdd(p3, "record_id", recordID) ELSE p3
      p5 == AddIfNonEmpty(p4, "record_type", recordAttributes.Type)
      p6 == AddIfNonEmpty(p5, "record_line", recordAttributes.Line)
      p7 == AddIfNonEmpty(p6, "record_line_id", recordAttributes.LineID)
      p8 == AddIfNonEmpty(p7, "value", recordAttributes.Value)
      p9 == AddIfNonEmpty(p8, "mx", recordAttributes.MX)
      p10 == AddIfNonEmpty(p9, "ttl", recordAttributes.TTL)
      p11 == AddIfNonEmpty(p10, "status", recordAttributes.Status)
  IN p11

RecordsService_Update_Payload(common, domain, recordID, recordAttributes) ==
  LET p0 == CommonParams_toPayLoad(common)
      p1 == ValuesAdd(p0, "domain_id", domain)
      p2 == AddIfNonEmpty(p1, "record_id", recordAttributes.ID)
      p3 == AddIfNonEmpty(p2, "sub_domain", recordAttributes.Name)
      p4 == IF recordAttributes.ID = "" /\ recordID # ""
            THEN ValuesAdd(p3, "record_id", recordID) ELSE p3
      p5 == AddIfNonEmpty(p4, "record_type", recordAttributes.Type)
      p6 == AddIfNonEmpty(p5, "record_line", recordAttributes.Line)
      p7 == AddIfNonEmpty(p6, "record_line_id", recordAttributes.LineID)
      p8 == AddIfNonEmpty(p7, "value", recordAttributes.Value)
      p9 == AddIfNonEmpty(p8, "mx", recordAttributes.MX)
      p10 == AddIfNonEmpty(p9, "ttl", recordAttributes.TTL)
      p11 == AddIfNonEmpty(p10, "status", recordAttributes.Status)
  IN p11

\* Variant: the decoded record is returned on a transport error too.
RecordsService_Update_Results_PartialOnTransportError(res, err, returnedRecord) ==
  IF ~err.nil
  THEN [val |-> returnedRecord.Record, res |-> res, err |-> err]
  ELSE IF returnedRecord.Status.Code # "1"
  THEN [val |-> returnedRecord.Record, res |-> NilResponse,
        err |-> Errorf(CouldNotGetDomains, returnedRecord.Status.Message)]
  ELSE [val |-> returnedRecord.Record, res |-> res, err |-> NilError]

RecordsService_Update_Results(res, err, returnedRecord) ==
  IF ~err.nil
  THEN [val |-> ZeroRecord, res |-> res, err |-> err]
  ELSE IF returnedRecord.Status.Code # "1"
  THEN [val |-> returnedRecord.Record, res |-> NilResponse,
        err |-> Errorf(CouldNotGetDomains, returnedRecord.Status.Message)]
  ELSE [val |-> returnedRecord.Record, res |-> res, err |-> NilError]

RecordsService_Update ==
  /\ pc = "idle"
  /\ \E domain \in Str, recordID \in Str, recordAttributes \in RecordTemplates :
       Call("RecordsService.Update",
            [domain |-> domain, recordID |-> recordID,
             recordAttributes |-> recordAttributes],
            RecordsService_Update_Payload(client, domain, recordID,
                                          recordAttributes),
            methodRecordModify)

RecordsService_Update_Return ==
  Return("RecordsService.Update",
         RecordsService_Update_Results(reply.res, reply.err, reply.w))

RecordsService_Remark_Payload(common, domain, recordID, recordAttributes) ==
  LET p0 == CommonParams_toPayLoad(common)
      p1 == ValuesAdd(p0, "domain_id", domain)
      p2 == AddIfNonEmpty(p1, "record_id", recordAttributes.ID)
      p3 == IF recordAttributes.ID = "" /\ recordID # ""
            THEN ValuesAdd(p2, "record_id", recordID) ELSE p2
      p4 == AddIfNonEmpty(p3, "remark", recordAttributes.Remark)
  IN p4

\* Variant: the zero Record is returned when the status check fails.
RecordsService_Remark_Results_ZeroOnStatusFailure(res, err, returnedRecord) ==
  IF ~err.nil
  THEN [val |-> ZeroRecord, res |-> res, err |-> err]
  ELSE IF returnedRecord.Status.Code # "1"
  THEN [val |-> ZeroRecord, res |-> NilResponse,
        err |-> Errorf(CouldNotGetDomains, returnedRecord.Status.Message)]
  ELSE [val |-> returnedRecord.Record, res |-> res, err |-> NilError]

RecordsService_Remark_Results(res, err, returnedRecord) ==
  IF ~err.nil
  THEN [val |-> ZeroRecord, res |-> res, err |-> err]
  ELSE IF returnedRecord.Status.Code # "1"
  THEN [val |-> returnedRecord.Record, res |-> NilResponse,
        err |-> Errorf(CouldNotGetDomains, returnedRecord.Status.Message)]
  ELSE [val |-> returnedRecord.Record, res |-> res, err |-> NilError]

RecordsService_Remark ==
  /\ pc = "idle"
  /\ \E domain \in Str, recordID \in Str, recordAttributes \in RecordTemplates :
       Call("RecordsService.Remark",
            [domain |-> domain, recordID |-> recordID,
             recordAttributes |-> recordAttributes],
            RecordsService_Remark_Payload(client, domain, recordID,
                                          recordAttributes),
            methodRecordRemark)

RecordsService_Remark_Return ==
  Return("RecordsService.Remark",
         RecordsService_Remark_Results(reply.res, reply.err, reply.w))

RecordsService_Delete_Payload(common, domain, recordID) ==
  LET p0 == CommonParams_toPayLoad(common)
      p1 == ValuesAdd(p0, "domain_id", domain)
      p2 == ValuesAdd(p1, "record_id", recordID)
  IN p2

\* Variant: Delete hands back post's results without a status check.
RecordsService_Delete_Results_Unchecked(res, err, returnedRecord) ==
  [res |-> res, err |-> err]

RecordsService_Delete_Results(res, err, returnedRecord) ==
  IF ~err.nil
  THEN [res |-> res, err |-> err]
  ELSE IF returnedRecord.Status.Code # "1"
  THEN [res |-> NilResponse,
        err |-> Errorf(CouldNotGetDomains, returnedRecord.Status.Message)]
  ELSE [res |-> res, err |-> NilError]

RecordsService_Delete ==
  /\ pc = "idle"
  /\ \E domain \in Str, recordID \in Str :
       Call("RecordsService.Delete", [domain |-> domain, recordID |-> recordID],
            RecordsService_Delete_Payload(client, domain, recordID),
            methodRecordRemove)

RecordsService_Delete_Return ==
  Return("RecordsService.Delete",
         RecordsService_Delete_Results(reply.res, reply.err, reply.w))

\* ------------------------------------------------------------ specification
Next ==
  \/ DomainsService_List
  \/ DomainsService_List_Return
  \/ DomainsService_Create
  \/ DomainsService_Create_Return
  \/ DomainsService_Get
  \/ DomainsService_Get_Return
  \/ DomainsService_Delete
  \/ DomainsService_Delete_Return
  \/ DomainsService_Log
  \/ DomainsService_Log_Return
  \/ RecordsService_List
  \/ RecordsService_List_Return
  \/ RecordsService_Create
  \/ RecordsService_Create_Return
  \/ RecordsService_Get
  \/ RecordsService_Get_Return
  \/ RecordsService_Update
  \/ RecordsService_Update_Return
  \/ RecordsService_Remark
  \/ RecordsService_Remark_Return
  \/ RecordsService_Delete
  \/ RecordsService_Delete_Return
  \/ Post_Send
  \/ Post_Reply
  \/ Finish

Spec == Init /\ [][Next]_vars

\* ---------------------------------------------------------------- claims
\* The operation name has called post and holds its inputs and payload.
Calling(name) == pc = "posting" /\ op = name

\* The transport succeeded / failed for the operation that has returned.
TransportOk == reply.err.nil
StatusOk == reply.w.Status.Code = "1"

\* The payload holds key k with exactly the value v when v is non-empty, and
\* does not hold k when v is empty.
Emits(k, v) ==
  IF v # "" THEN k \in DOMAIN payload /\ payload[k] = <<v>>
  ELSE k \notin DOMAIN payload

\* The same for an integer field, whose empty value is 0.
EmitsInt(k, n) ==
  IF n # 0 THEN k \in DOMAIN payload /\ payload[k] = <<Itoa(n)>>
  ELSE k \notin DOMAIN payload

RecordTemplateEmitted(t) ==
  /\ Emits("sub_domain", t.Name)
  /\ Emits("record_type", t.Type)
  /\ Emits("record_line", t.Line)
  /\ Emits("record_line_id", t.LineID)
  /\ Emits("value", t.Value)
  /\ Emits("mx", t.MX)
  /\ Emits("ttl", t.TTL)
  /\ Emits("status", t.Status)

\* C1: in every request builder, each operation-specific field's key is in
\* the payload if and only if the field is non-empty (string # "", integer
\* # 0), and then carries exactly the field's string form.
C1_FieldPresentIffNonEmpty ==
  /\ Calling("DomainsService.Log") =>
       /\ Emits("domain_id", args.DomainId)
       /\ Emits("domain", args.Domain)
       /\ EmitsInt("offset", args.Offset)
       /\ EmitsInt("length", args.Length)
  /\ Calling("DomainsService.List") =>
       /\ Emits("type", args.Type)
       /\ Emits("offset", args.Offset)
       /\ Emits("length", args.Length)
       /\ Emits("group_id", args.GroupId)
       /\ Emits("keyword", args.Keyword)
  /\ Calling("RecordsService.List") =>
       /\ Emits("domain_id", args.DomainId)
       /\ Emits("domain", args.Domain)
       /\ Emits("offset", args.Offset)
       /\ Emits("length", args.Length)
       /\ Emits("sub_domain", args.SubDomain)
       /\ Emits("record_type", args.RecordType)
       /\ Emits("record_line", args.RecordLine)
       /\ Emits("record_line_id", args.RecordLIneId)
       /\ Emits("keyword", args.KeyWord)
  /\ Calling("DomainsService.Create") =>
       /\ Emits("domain", args.domainAttributes.Name)
       /\ Emits("group_id", args.domainAttributes.GroupID)
       /\ Emits("is_mark", args.domainAttributes.IsMark)
  /\ (Calling("DomainsService.Get") \/ Calling("DomainsService.Delete")) =>
       EmitsInt("domain_id", args.id)
  /\ Calling("RecordsService.Create") =>
       /\ Emits("domain_id", args.domain)
       /\ RecordTemplateEmitted(args.recordAttributes)
  /\ (Calling("RecordsService.Get") \/ Calling("RecordsService.Delete")) =>
       /\ Emits("domain_id", args.domain)
       /\ Emits("record_id", args.recordID)
  /\ Calling("RecordsService.Update") =>
       /\ Emits("domain_id", args.domain)
       /\ RecordTemplateEmitted(args.recordAttributes)
  /\ Calling("RecordsService.Remark") =>
       /\ Emits("domain_id", args.domain)
       /\ Emits("remark", args.recordAttributes.Remark)

\* C2: in the builders that take a domain by id or by name, a non-empty id
\* keeps the key "domain" out of the payload, and the payload never holds
\* both "domain_id" and "domain".
C2_IdSuppressesName ==
  (Calling("DomainsService.Log") \/ Calling("RecordsService.List")) =>
     /\ args.DomainId # "" => "domain" \notin DOMAIN payload
     /\ ~({"domain_id", "domain"} \subseteq DOMAIN payload)

StatusCheckingOps ==
  {"DomainsService.List", "DomainsService.Log", "RecordsService.List",
   "RecordsService.Create", "RecordsService.Get", "RecordsService.Update",
   "RecordsService.Remark", "RecordsService.Delete"}

\* C3: a status-checking operation whose transport call succeeded with a
\* status code other than "1" returns a non-nil error whose text contains
\* the status message.
C3_StatusFailureIsError ==
  (pc = "done" /\ op \in StatusCheckingOps /\ TransportOk /\ ~StatusOk) =>
     /\ ~ret.err.nil
     /\ Contains(ret.err.text, reply.w.Status.Message)

C3_Witness ==
  /\ pc = "done" /\ op = "RecordsService.Delete"
  /\ TransportOk
  /\ reply.w.Status = Status("6", <<"Domain", "id", "invalid">>)
  /\ ret.err = ErrorOf(<<"could", "not", "get", "domains:", "Domain", "id",
                         "invalid">>)

\* C4: DomainsService.Create, Get and Delete return a nil error whenever the
\* transport call succeeded, whatever the status code; Create and Get return
\* the decoded domain, Delete the transport's response descriptor.
C4_DomainOpsIgnoreStatus ==
  /\ (pc = "done" /\ TransportOk
        /\ op \in {"DomainsService.Create", "DomainsService.Get"}) =>
       /\ ret.err = NilError
       /\ ret.val = reply.w.Domain
       /\ ret.res = reply.res
  /\ (pc = "done" /\ TransportOk /\ op = "DomainsService.Delete") =>
       /\ ret.err = NilError
       /\ ret.res = reply.res

C4_Witness ==
  /\ pc = "done" /\ op = "DomainsService.Create"
  /\ TransportOk /\ reply.w.Status.Code = "0"
  /\ reply.w.Domain # ZeroDomain
  /\ ret.err = NilError /\ ret.val = reply.w.Domain

ListOps == {"DomainsService.List", "DomainsService.Log", "RecordsService.List"}
DomainOps == {"DomainsService.Create", "DomainsService.Get"}
RecordOps ==
  {"RecordsService.Create", "RecordsService.Get", "RecordsService.Update",
   "RecordsService.Remark"}
DeleteOps == {"DomainsService.Delete", "RecordsService.Delete"}

\* C5: when the transport call fails, every operation returns that very
\* error, the zero value as its entity (nil sequence, Domain{}, Record{}),
\* and the transport's descriptor: nothing of the decoded envelope shows.
C5_TransportErrorVerbatim ==
  (pc = "done" /\ ~TransportOk) =>
     /\ ret.err = reply.err
     /\ op \in ListOps => ret.val = NilSlice
     /\ op \in DomainOps => ret.val = ZeroDomain
     /\ op \in RecordOps => ret.val = ZeroRecord
     /\ op # "DomainsService.Log" => ret.res = reply.res

C5_Witness ==
  /\ pc = "done" /\ op = "RecordsService.Update"
  /\ ~TransportOk
  /\ reply.w.Record # ZeroRecord
  /\ ret.val = ZeroRecord /\ ret.err = reply.err

\* C6: in RecordsService.Update and Remark the payload holds at most one
\* value under "record_id": the template's ID when that is non-empty, else
\* the passed recordID when that is non-empty, else the key is absent.
C6_RecordIdPrecedence ==
  (Calling("RecordsService.Update") \/ Calling("RecordsService.Remark")) =>
     LET id == args.recordAttributes.ID
         recordID == args.recordID
     IN /\ id # "" =>
             "record_id" \in DOMAIN payload /\ payload["record_id"] = <<id>>
        /\ (id = "" /\ recordID # "") =>
             /\ "record_id" \in DOMAIN payload
             /\ payload["record_id"] = <<recordID>>
        /\ (id = "" /\ recordID = "") => "record_id" \notin DOMAIN payload

C6_Witness ==
  /\ Calling("RecordsService.Update")
  /\ args.recordAttributes.ID = "1" /\ args.recordID = "2"
  /\ payload["record_id"] = <<"1">>

\* The payload field of the decoded envelope of the operation that returned.
EnvelopePayload ==
  CASE op = "DomainsService.List" -> reply.w.Domains
    [] op \in DomainOps -> reply.w.Domain
    [] op = "DomainsService.Log" -> reply.w.Log
    [] op = "RecordsService.List" -> reply.w.Records
    [] op \in RecordOps -> reply.w.Record

\* C7: when the transport call succeeded with status code "1", an operation
\* that returns an entity or sequence returns a nil error, the payload field
\* of the decoded envelope, and (where it returns one) the transport's
\* descriptor.
C7_SuccessRoundTrip ==
  (pc = "done" /\ op \notin DeleteOps /\ TransportOk /\ StatusOk) =>
     /\ ret.err = NilError
     /\ ret.val = EnvelopePayload
     /\ op # "DomainsService.Log" => ret.res = reply.res

C7_Witness ==
  /\ pc = "done" /\ op = "RecordsService.List"
  /\ TransportOk /\ StatusOk
  /\ ~reply.w.Records.nil /\ Len(reply.w.Records.elems) = 2
  /\ ret.val = reply.w.Records

\* C8: RecordsService.Update and Remark, when the transport call succeeded
\* with a status code other than "1", return the decoded Record together
\* with the non-nil error.
C8_PartialRecordOnStatusFailure ==
  (pc = "done" /\ op \in {"RecordsService.Update", "RecordsService.Remark"}
     /\ TransportOk /\ ~StatusOk) =>
     /\ ~ret.err.nil
     /\ ret.val = reply.w.Record

C8_Witness ==
  /\ pc = "done" /\ op = "RecordsService.Remark"
  /\ TransportOk /\ reply.w.Status.Code = "0"
  /\ reply.w.Record # ZeroRecord
  /\ ~ret.err.nil /\ ret.val = reply.w.Record

\* The remote method identifier of each operation.
MethodIdentifier ==
  [o \in {"DomainsService.List", "DomainsService.Create",
          "DomainsService.Get", "DomainsService.Delete",
          "DomainsService.Log", "RecordsService.List",
          "RecordsService.Create", "RecordsService.Get",
          "RecordsService.Update", "RecordsService.Remark",
          "RecordsService.Delete"} |->
     CASE o = "DomainsService.List" -> "Domain.List"
       [] o = "DomainsService.Create" -> "Domain.Create"
       [] o = "DomainsService.Get" -> "Domain.Info"
       [] o = "DomainsService.Delete" -> "Domain.Remove"
       [] o = "DomainsService.Log" -> "Domain.Log"
       [] o = "RecordsService.List" -> "Record.List"
       [] o = "RecordsService.Create" -> "Record.Create"
       [] o = "RecordsService.Get" -> "Record.Info"
       [] o = "RecordsService.Update" -> "Record.Modify"
       [] o = "RecordsService.Remark" -> "Record.Remark"
       [] o = "RecordsService.Delete" -> "Record.Remove"]

\* C9: from its call of post until it has returned, on every outcome, an
\* operation has invoked post exactly once, with its own method identifier;
\* between operations nothing has been posted.
C9_ExactlyOnePost ==
  /\ pc = "idle" => posts = <<>>
  /\ pc # "idle" => posts = <<MethodIdentifier[op]>>

C9_Witness ==
  /\ pc = "done" /\ op = "RecordsService.Delete"
  /\ ~TransportOk
  /\ posts = <<"Record.Remove">>

DescriptorOps ==
  {"DomainsService.List", "RecordsService.List", "RecordsService.Create",
   "RecordsService.Get", "RecordsService.Update", "RecordsService.Remark",
   "RecordsService.Delete"}

\* C10 as stated: a status-checking operation that returns a descriptor
\* returns nil exactly when the transport succeeded with a status code
\* other than "1", and the transport's descriptor in every other outcome.
C10_NilExactlyOnStatusFailure ==
  (pc = "done" /\ op \in DescriptorOps) =>
     /\ (ret.res = NilResponse) <=> (TransportOk /\ ~StatusOk)
     /\ ~(TransportOk /\ ~StatusOk) => ret.res = reply.res

\* C10 as amended: the operation returns a nil descriptor whenever the
\* transport succeeded with a status code other than "1", and the
\* transport's descriptor (itself possibly nil after a transport error) in
\* every other outcome.
C10_DescriptorDiscardedOnStatusFailure ==
  (pc = "done" /\ op \in DescriptorOps) =>
     /\ (TransportOk /\ ~StatusOk) => ret.res = NilResponse
     /\ ~(TransportOk /\ ~StatusOk) => ret.res = reply.res

C10_Witness ==
  /\ pc = "done" /\ op = "DomainsService.List"
  /\ TransportOk /\ reply.w.Status.Code = "0"
  /\ reply.res = "HTTP 200"
  /\ ret.res = NilResponse

====
